---- MODULE Spec2Model ----
(***************************************************************************)
(* Model of torchdata's DataPipe graph utilities                           *)
(* (torchdata/dataloader2/graph/utils.py) and of the combining DataPipes   *)
(* IterKeyZipper, MapKeyZipper, RoundRobinDemultiplexer and UnZipper       *)
(* (torchdata/datapipes/iter/util/combining.py).                           *)
(*                                                                         *)
(* A DataPipe is a natural number (its id()).  Its __dict__ is an ordered  *)
(* sequence of attribute values; an attribute value is a tagged record     *)
(* [k, id, v]: a reference to a DataPipe, a tuple, a list, a set, a dict   *)
(* (its values, in key order) or any other object.                         *)
(***************************************************************************)
EXTENDS Integers, Sequences, FiniteSets, TLC

VARIABLES
    dict,      \* dict[p]: the attribute values of DataPipe p, in __dict__ order
    graph,     \* the DataPipeGraph the caller holds (result of the last traversal)
    log,       \* the rewrite calls made so far, each with the state it started from
    res,       \* the last query (find_dps / list_dps) and what it returned
    join,      \* the state of one IterKeyZipper and of its iteration pass
    zip_map,   \* the state of one MapKeyZipper and of its iteration pass
    demux,     \* the state of one round_robin_demux and of its child DataPipes
    unzip,     \* the state of one unzip and of its child DataPipes
    call,      \* one call of _assign_attr on a DataPipe, and what it did
    hash       \* hash[at]: where the hashes of this run put the elements of
               \* the set held at place `at` when it is rebuilt next: a
               \* permutation of its positions, one for each set

vars == <<dict, graph, log, res, join, zip_map, demux, unzip, call, hash>>

\* the variables of the operators added to the graph functions and the join
others == <<zip_map, demux, unzip, call, hash>>

Unused == [pc |-> "unused"]
OthersUnused ==
    /\ zip_map = Unused
    /\ demux = Unused
    /\ unzip = Unused
    /\ call = Unused

-----------------------------------------------------------------------------
(* Attribute values *)

None == [k |-> "none", id |-> 0, v |-> <<>>]
DP(p) == [k |-> "dp", id |-> p, v |-> <<>>]
Tup(s) == [k |-> "tuple", id |-> 0, v |-> s]
Lst(s) == [k |-> "list", id |-> 0, v |-> s]
SetV(s) == [k |-> "set", id |-> 0, v |-> s]
Dct(s) == [k |-> "dict", id |-> 0, v |-> s]
Other == [k |-> "other", id |-> 0, v |-> <<>>]

Range(s) == {s[i] : i \in 1..Len(s)}

MaxOf(S) == CHOOSE x \in S : \A y \in S : y <= x

\* the permutations of 1..n
Perms(n) == {h \in [1..n -> 1..n] : \A i, j \in 1..n : h[i] = h[j] => i = j}

\* The order in which a Python set is iterated.  It is the order of the slots
\* of its hash table, which the elements' hashes (their addresses) decide and
\* no insertion order does: s lists the elements, h is the permutation the
\* hashes of the run make of them, any one being possible.
SetOrder(s, h) ==
    LET slots == SelectSeq(h, LAMBDA x : x <= Len(s))
    IN [i \in 1..Len(s) |-> s[slots[i]]]

RECURSIVE SetLen(_)
\* the size of the largest set held in obj
SetLen(obj) ==
    MaxOf({IF obj.k = "set" THEN Len(obj.v) ELSE 0}
          \cup {SetLen(obj.v[i]) : i \in 1..Len(obj.v)})

RECURSIVE SetPlaces(_, _)
\* The places of the sets of more than one element held in obj, itself at
\* place `at`.  A place is the path to an object: the DataPipe, the index of
\* the attribute, the indices inside the containers; it stands for the
\* identity of the object found there.
SetPlaces(obj, at) ==
    (IF obj.k = "set" /\ Len(obj.v) > 1 THEN {at} ELSE {})
    \cup UNION {SetPlaces(obj.v[i], Append(at, i)) : i \in 1..Len(obj.v)}

\* The permutations the hashes can make of the sets held in store d, a set of
\* one element apart: one permutation for each set, chosen independently.
Layouts(d) ==
    [UNION {UNION {SetPlaces(d[p][k], <<p, k>>) : k \in DOMAIN d[p]} :
               p \in DOMAIN d}
        -> Perms(MaxOf({1} \cup UNION {{SetLen(d[p][k]) : k \in DOMAIN d[p]} :
                                          p \in DOMAIN d}))]

RECURSIVE Dedup(_)
\* s without repeated elements, the first occurrence of each kept
Dedup(s) ==
    IF s = <<>> THEN <<>>
    ELSE LET r == Dedup(SubSeq(s, 1, Len(s) - 1))
             x == s[Len(s)]
         IN IF x \in Range(r) THEN r ELSE Append(r, x)

-----------------------------------------------------------------------------
(* Classes of the DataPipes.  SubMapper is a subclass of Mapper. *)

Types == {"Source", "Mapper", "SubMapper", "Zipper"}

TypeOf(p) ==
    CASE p = 1 -> "Source"
      [] p = 2 -> "Mapper"
      [] p = 3 -> "SubMapper"
      [] p = 4 -> "Mapper"
      [] p = 5 -> "Zipper"
      [] OTHER -> "SubMapper"

IsSubclass(t, u) == t = u \/ (t = "SubMapper" /\ u = "Mapper")

-----------------------------------------------------------------------------
(* traverse_dps: the graph of a DataPipe.  A graph is the ordered dict     *)
(* id -> (dp, subgraph), here a sequence of [id, sub] in insertion order.  *)

RECURSIVE ConnectedIn(_)
\* the DataPipes one attribute value refers to, in the order they are met;
\* a DataPipe is a boundary: what it holds is not looked at
ConnectedIn(obj) ==
    IF obj.k = "dp" THEN <<obj.id>>
    ELSE IF obj.v = <<>> THEN <<>>
    ELSE ConnectedIn(obj.v[1]) \o ConnectedIn([obj EXCEPT !.v = Tail(obj.v)])

RECURSIVE ConnectedSeq(_)
ConnectedSeq(fields) ==
    IF fields = <<>> THEN <<>>
    ELSE ConnectedIn(fields[1]) \o ConnectedSeq(Tail(fields))

RECURSIVE Pickle(_, _, _, _)
RECURSIVE PickleSeq(_, _, _, _)
\* _list_connected_datapipes serialises scan_obj with a hook on every
\* DataPipe it meets.  st = [out, memo]: the DataPipes captured so far and the
\* DataPipes already serialised (the pickler writes an object once).  A
\* DataPipe that is not in cache is captured and replaced by a stub; one
\* that is in cache (scan_obj itself, a DataPipe above it on the path) is
\* serialised in full, so that the DataPipes it holds are met in turn.
Pickle(d, obj, cache, st) ==
    IF obj.k = "dp" THEN
        IF obj.id \in st.memo THEN st
        ELSE IF obj.id \in cache
        THEN PickleSeq(d, d[obj.id], cache, [st EXCEPT !.memo = @ \cup {obj.id}])
        ELSE [out |-> Append(st.out, obj.id), memo |-> st.memo \cup {obj.id}]
    ELSE PickleSeq(d, obj.v, cache, st)

PickleSeq(d, v, cache, st) ==
    IF v = <<>> THEN st
    ELSE PickleSeq(d, Tail(v), cache, Pickle(d, v[1], cache, st))

\* _list_connected_datapipes(p, only_datapipe=True, cache): the DataPipes
\* captured, each once; cache holds p
Connected(d, p, cache) ==
    Pickle(d, DP(p), cache \cup {p}, [out |-> <<>>, memo |-> {}]).out

RECURSIVE TraverseHelper(_, _, _)
RECURSIVE TraverseItems(_, _, _)
TraverseItems(d, items, cache) ==
    IF items = <<>> THEN <<>>
    ELSE TraverseHelper(d, items[1], cache) \o TraverseItems(d, Tail(items), cache)

\* _traverse_helper: cache is the set of the DataPipes above p on the path
TraverseHelper(d, p, cache) ==
    IF p \in cache THEN <<>>
    ELSE <<[id |-> p,
            sub |-> TraverseItems(d, Connected(d, p, cache \cup {p}), cache \cup {p})]>>

traverse_dps(d, p) == TraverseHelper(d, p, {})

RECURSIVE GraphIds(_)
\* every id that occurs in a graph, at any depth
GraphIds(g) ==
    IF g = <<>> THEN {}
    ELSE {g[1].id} \cup GraphIds(g[1].sub) \cup GraphIds(Tail(g))

-----------------------------------------------------------------------------
(* find_dps *)

\* the test isinstance(dp, dp_type)
TypeMatchSubclass(p, dp_type) == IsSubclass(TypeOf(p), dp_type)

\* the test of line 29: `type(dp) is dp_type`
TypeMatch(p, dp_type) == TypeOf(p) = dp_type

RECURSIVE find_helper(_, _, _)
\* helper(g) of find_dps; st = [dps, cache]
find_helper(g, dp_type, st) ==
    IF g = <<>> THEN st
    ELSE LET e == g[1] IN
         IF e.id \in st.cache
         THEN find_helper(Tail(g), dp_type, st)
         ELSE LET st1 == [dps |-> IF TypeMatch(e.id, dp_type)
                                   THEN Append(st.dps, e.id) ELSE st.dps,
                          cache |-> st.cache \cup {e.id}]
                  st2 == find_helper(e.sub, dp_type, st1)
              IN find_helper(Tail(g), dp_type, st2)

find_dps(g, dp_type) == find_helper(g, dp_type, [dps |-> <<>>, cache |-> {}]).dps

-----------------------------------------------------------------------------
(* list_dps *)

RECURSIVE EnqueueNew(_, _)
\* lines 65-68 and 73-76: append the entries of g not in the cache
EnqueueNew(g, st) ==
    IF g = <<>> THEN st
    ELSE IF g[1].id \in st.cache
         THEN EnqueueNew(Tail(g), st)
         ELSE EnqueueNew(Tail(g), [st EXCEPT !.q = Append(@, g[1]),
                                             !.cache = @ \cup {g[1].id}])

RECURSIVE LifoLoop(_)
\* a loop that takes the entry appended last (q.pop() for q.popleft())
LifoLoop(st) ==
    IF st.q = <<>> THEN st
    ELSE LET e == st.q[Len(st.q)]
             st1 == [st EXCEPT !.q = SubSeq(@, 1, Len(@) - 1), !.dps = Append(@, e.id)]
         IN LifoLoop(EnqueueNew(e.sub, st1))

RECURSIVE BfsLoop(_)
\* the loop of lines 70-76; st = [dps, q, cache]
BfsLoop(st) ==
    IF st.q = <<>> THEN st
    ELSE LET e == Head(st.q)
             st1 == [st EXCEPT !.q = Tail(@), !.dps = Append(@, e.id)]
         IN BfsLoop(EnqueueNew(e.sub, st1))

\* list_dps without exclude_dps
list_all(g) == BfsLoop(EnqueueNew(g, [dps |-> <<>>, q |-> <<>>, cache |-> {}])).dps

\* an exclusion that marks the excluded DataPipes alone
ExcludeCacheSelfOnly(d, exclude_dps, cache) == cache \cup Range(exclude_dps)

RECURSIVE ExcludeCache(_, _, _)
\* lines 55-61: the cache after the loop over exclude_dps
ExcludeCache(d, exclude_dps, cache) ==
    IF exclude_dps = <<>> THEN cache
    ELSE LET x == exclude_dps[1] IN
         IF x \in cache
         THEN ExcludeCache(d, Tail(exclude_dps), cache)
         ELSE ExcludeCache(d, Tail(exclude_dps),
                           cache \cup Range(list_all(traverse_dps(d, x))))

\* list_dps(graph, exclude_dps); exclude_dps is a sequence (None is <<>>, one
\* DataPipe is the sequence of it, lines 50-54)
list_dps(d, g, exclude_dps) ==
    BfsLoop(EnqueueNew(g, [dps |-> <<>>, q |-> <<>>,
                           cache |-> ExcludeCache(d, exclude_dps, {})])).dps

-----------------------------------------------------------------------------
(* _assign_attr.  The result is [ret, obj, err]: what the call returns     *)
(* (None or an object), obj as the call leaves it (containers that are     *)
(* mutated in place), and the exception it raises ("none" when it returns).*)
(* This is the function with inner_dp = False, as every call made from     *)
(* inside a DataPipe's attributes has it (line 170 passes the default and  *)
(* lines 187, 199, 207 pass it on).  `at` is the place of obj in the store. *)

RECURSIVE _assign_attr(_, _, _, _)
RECURSIVE assign_first(_, _, _, _, _)
RECURSIVE assign_tuple(_, _, _, _, _, _)

\* the loops of lines 169-173, 176-180 and 198-202 from index i on: the first
\* result that is not None is stored at its place and the loop breaks
assign_first(v, i, old_dp, new_dp, at) ==
    IF i > Len(v) THEN [v |-> v, err |-> "none"]
    ELSE LET r == _assign_attr(v[i], old_dp, new_dp, Append(at, i)) IN
         IF r.err # "none" THEN [v |-> [v EXCEPT ![i] = r.obj], err |-> r.err]
         ELSE IF r.ret # None THEN [v |-> [v EXCEPT ![i] = r.ret], err |-> "none"]
         ELSE assign_first([v EXCEPT ![i] = r.obj], i + 1, old_dp, new_dp, at)

\* the loop of lines 186-192 from index i on; acc = [v, temp_list, flag, err]
assign_tuple(v, i, old_dp, new_dp, at, acc) ==
    IF i > Len(v) \/ acc.err # "none" THEN acc
    ELSE LET r == _assign_attr(v[i], old_dp, new_dp, Append(at, i)) IN
         assign_tuple(v, i + 1, old_dp, new_dp, at,
            [v |-> [acc.v EXCEPT ![i] = r.obj],
             temp_list |-> Append(acc.temp_list,
                                  IF r.ret # None THEN DP(new_dp) ELSE r.obj),
             flag |-> acc.flag \/ r.ret # None,
             err |-> r.err])

_assign_attr(obj, old_dp, new_dp, at) ==
    IF obj = DP(old_dp) THEN [ret |-> DP(new_dp), obj |-> obj, err |-> "none"]
    ELSE IF obj.k = "dp" THEN [ret |-> None, obj |-> obj, err |-> "none"]
    ELSE IF obj.k \in {"dict", "list"} THEN
        LET r == assign_first(obj.v, 1, old_dp, new_dp, at)
        IN [ret |-> None, obj |-> [obj EXCEPT !.v = r.v], err |-> r.err]
    ELSE IF obj.k = "tuple" THEN
        LET r == assign_tuple(obj.v, 1, old_dp, new_dp, at,
                     [v |-> obj.v, temp_list |-> <<>>, flag |-> FALSE, err |-> "none"])
        IN [ret |-> IF r.err = "none" /\ r.flag THEN Tup(r.temp_list) ELSE None,
            obj |-> [obj EXCEPT !.v = r.v], err |-> r.err]
    ELSE IF obj.k = "set" THEN
        \* set elements are hashable: nothing inside them is mutated in place
        IF \E i \in 1..Len(obj.v) :
              _assign_attr(obj.v[i], old_dp, new_dp, Append(at, i)).ret # None
        THEN IF DP(old_dp) \notin Range(obj.v)
             THEN [ret |-> None, obj |-> obj, err |-> "KeyError"]   \* obj.remove(old_dp)
             ELSE LET rest == SelectSeq(obj.v, LAMBDA o : o # DP(old_dp))
                      elems == IF DP(new_dp) \in Range(rest) THEN rest
                               ELSE Append(rest, DP(new_dp))
                      h == IF at \in DOMAIN hash THEN hash[at]
                           ELSE [i \in 1..Len(elems) |-> i]
                  IN [ret |-> None,                        \* lines 211-212
                      obj |-> [obj EXCEPT !.v = SetOrder(elems, h)],
                      err |-> "none"]
        ELSE [ret |-> None, obj |-> obj, err |-> "none"]
    ELSE [ret |-> None, obj |-> obj, err |-> "none"]

\* _assign_attr(obj, old_dp, new_dp, inner_dp=True) for a DataPipe obj, the call
\* of lines 136 and 154, on the attribute store d; [d, err]
_assign_attr_dp(d, obj, old_dp, new_dp) ==
    IF obj = old_dp THEN [d |-> d, err |-> "none"]
    ELSE LET r == assign_first(d[obj], 1, old_dp, new_dp, <<obj>>)
         IN [d |-> [d EXCEPT ![obj] = r.v], err |-> r.err]

-----------------------------------------------------------------------------
(* replace_dp *)

RECURSIVE _replace_dp(_, _, _, _, _)
\* st = [d, err]; the loop of lines 134-139 over send_graph
_replace_dp(st, recv_dp, send_graph, old_dp, new_dp) ==
    IF st.err # "none" \/ send_graph = <<>> THEN st
    ELSE LET s == send_graph[1]
             st1 == IF s.id = old_dp
                    THEN _assign_attr_dp(st.d, recv_dp, old_dp, new_dp)
                    ELSE _replace_dp(st, s.id, s.sub, old_dp, new_dp)
         IN _replace_dp(st1, recv_dp, Tail(send_graph), old_dp, new_dp)

TopIds(g) == {g[i].id : i \in 1..Len(g)}

RECURSIVE ReplaceEach(_, _, _, _)
\* the loop of lines 94-95 over the entries of the graph
ReplaceEach(st, g, old_dp, new_dp) ==
    IF g = <<>> THEN st
    ELSE ReplaceEach(_replace_dp(st, g[1].id, g[1].sub, old_dp, new_dp),
                     Tail(g), old_dp, new_dp)

\* [d, err, ret]: the attribute store after the call, the exception raised,
\* the graph returned
replace_dp(d, g, old_datapipe, new_datapipe) ==
    LET g1 == IF old_datapipe \in TopIds(g) THEN traverse_dps(d, new_datapipe) ELSE g
        final_datapipe == g1[1].id
        st == ReplaceEach([d |-> d, err |-> "none"], g1, old_datapipe, new_datapipe)
    IN IF Len(g) # 1                                               \* line 88
       THEN [d |-> d, err |-> "AssertionError", ret |-> <<>>]
       ELSE [d |-> st.d, err |-> st.err,
             ret |-> IF st.err = "none" THEN traverse_dps(st.d, final_datapipe)
                     ELSE <<>>]

-----------------------------------------------------------------------------
(* remove_dp *)

RECURSIVE _remove_dp(_, _, _, _)
\* st = [d, err]; the loop of lines 146-157 over send_graph
_remove_dp(st, recv_dp, send_graph, datapipe) ==
    IF st.err # "none" \/ send_graph = <<>> THEN st
    ELSE LET s == send_graph[1]
             st1 == IF s.id = datapipe
                    THEN IF s.sub = <<>>
                         THEN [st EXCEPT !.err = "IndexError"]     \* line 153
                         ELSE _assign_attr_dp(st.d, recv_dp, s.id, s.sub[1].id)
                    ELSE _remove_dp(st, s.id, s.sub, datapipe)
         IN _remove_dp(st1, recv_dp, Tail(send_graph), datapipe)

RECURSIVE RemoveEach(_, _, _)
\* the loop of lines 120-121 over the entries of the graph
RemoveEach(st, g, datapipe) ==
    IF g = <<>> THEN st
    ELSE RemoveEach(_remove_dp(st, g[1].id, g[1].sub, datapipe), Tail(g), datapipe)

\* a remove_dp without the checks of lines 112-115
RemoveCheckNever(d, datapipe) == "none"

\* lines 110-115: the exception remove_dp raises before it touches anything
RemoveCheck(d, datapipe) ==
    LET n == Len(traverse_dps(d, datapipe)[1].sub)
    IN IF n = 0 THEN "RuntimeError: source"
       ELSE IF n > 1 THEN "RuntimeError: multiple"
       ELSE "none"

remove_dp(d, g, datapipe) ==
    LET chk == RemoveCheck(d, datapipe)
        g1 == IF datapipe \in TopIds(g)
              THEN (CHOOSE e \in Range(g) : e.id = datapipe).sub
              ELSE g
        st == RemoveEach([d |-> d, err |-> "none"], g1, datapipe)
    IN IF Len(g) # 1                                               \* line 108
       THEN [d |-> d, err |-> "AssertionError", ret |-> <<>>]
       ELSE IF chk # "none" THEN [d |-> d, err |-> chk, ret |-> <<>>]
       ELSE IF st.err # "none" THEN [d |-> st.d, err |-> st.err, ret |-> <<>>]
       ELSE IF Len(g1) # 1                                         \* line 124
       THEN [d |-> st.d, err |-> "AssertionError", ret |-> <<>>]
       ELSE [d |-> st.d, err |-> "none", ret |-> traverse_dps(st.d, g1[1].id)]

-----------------------------------------------------------------------------
(* The pipelines the graph functions are run on.  A topology gives, for    *)
(* each DataPipe 1..n, the DataPipes it reads from, in the order of its    *)
(* constructor's arguments; DataPipe n is the terminal one.  A holder is   *)
(* the way a DataPipe class stores them in its attributes.                 *)

Topologies ==
    { <<<<>>>>,                                      \* a source alone
      <<<<>>, <<1>>, <<2>>, <<3>>>>,                 \* a chain
      <<<<>>, <<>>, <<1, 2>>, <<3>>>>,               \* a zip of two sources
      <<<<>>, <<1>>, <<1, 2>>, <<3>>>>,              \* 1 reached at two depths
      <<<<>>, <<1>>, <<2, 2>>, <<3>>>>,              \* 3 holds 2 at two places
      <<<<>>, <<1>>, <<2>>, <<2>>, <<3, 4>>>>,       \* 2 reached along two paths
      <<<<>>, <<1, 1>>, <<2>>, <<2>>, <<3, 4>>>>,    \* both of the above
      <<<<>>, <<1>>, <<>>, <<3>>, <<3>>, <<2, 4, 5>>>> }  \* two branches

Holders == {"attr", "list", "tuple", "nested", "set", "dict"}

MakeFields(preds, holder, h) ==
    LET dps == [i \in 1..Len(preds) |-> DP(preds[i])] IN
    IF preds = <<>> THEN <<Other>>
    ELSE CASE holder = "attr" -> <<Other>> \o dps
           [] holder = "list" -> <<Other, Lst(dps)>>
           [] holder = "tuple" -> <<Tup(dps), Other>>
           [] holder = "nested" -> <<Tup(<<Tup(dps), Other>>)>>
           [] holder = "set" -> <<SetV(SetOrder(Dedup(dps), h))>>
           [] holder = "dict" -> <<Dct(dps), Other>>

\* one more DataPipe, outside the pipeline: a source (wraps = 0) or a
\* DataPipe constructed on DataPipe `wraps` of the pipeline
MakeDict(top, holder, wraps, h) ==
    [p \in 1..(Len(top) + 1) |->
        IF p <= Len(top) THEN MakeFields(top[p], holder, h)
        ELSE IF wraps = 0 THEN <<Other>> ELSE <<Other, DP(wraps)>>]

\* the largest number of DataPipes one DataPipe of the topology reads from
Width(top) == MaxOf({1} \cup {Len(top[p]) : p \in DOMAIN top})

NoQuery == [op |-> "none", dp_type |-> "", exclude |-> <<>>, out |-> <<>>]
NoJoin == [pc |-> "unused"]

InitGraph ==
    /\ \E top \in Topologies, holder \in Holders :
       \E wraps \in 0..Len(top), h \in Perms(Width(top)) :
          /\ dict = MakeDict(top, holder, wraps, h)
          /\ graph = traverse_dps(dict, Len(top))
    /\ hash \in Layouts(dict)
    /\ log = <<>>
    /\ res = NoQuery
    /\ join = NoJoin
    /\ OthersUnused

-----------------------------------------------------------------------------
(* Queries *)

MaxExclude == 2

FindDps(dp_type) ==
    /\ res' = [op |-> "find_dps", dp_type |-> dp_type, exclude |-> <<>>,
               out |-> find_dps(graph, dp_type)]
    /\ UNCHANGED <<dict, graph, log, join, others>>

ExcludeArgs == UNION {[1..n -> DOMAIN dict] : n \in 0..MaxExclude}

ListDps(exclude_dps) ==
    /\ res' = [op |-> "list_dps", dp_type |-> "", exclude |-> exclude_dps,
               out |-> list_dps(dict, graph, exclude_dps)]
    /\ UNCHANGED <<dict, graph, log, join, others>>

NextQuery ==
    \/ \E dp_type \in Types : FindDps(dp_type)
    \/ \E exclude_dps \in ExcludeArgs : ListDps(exclude_dps)

SpecQuery == InitGraph /\ [][NextQuery]_vars

-----------------------------------------------------------------------------
(* Rewrites.  The caller passes the graph it holds and keeps the graph     *)
(* returned; it stops at the first exception.                              *)

MaxOps == 2

CanRewrite ==
    /\ Len(log) < MaxOps
    /\ \A i \in 1..Len(log) : log[i].err = "none"

ReplaceDp(old_datapipe, new_datapipe) ==
    LET r == replace_dp(dict, graph, old_datapipe, new_datapipe) IN
    /\ CanRewrite
    /\ dict' = r.d
    /\ graph' = IF r.err = "none" THEN r.ret ELSE graph
    /\ log' = Append(log, [op |-> "replace_dp", old |-> old_datapipe,
                           new |-> new_datapipe, d |-> dict, g |-> graph,
                           err |-> r.err])
    /\ hash' \in Layouts(dict')
    /\ UNCHANGED <<res, join, zip_map, demux, unzip, call>>

RemoveDp(datapipe) ==
    LET r == remove_dp(dict, graph, datapipe) IN
    /\ CanRewrite
    /\ dict' = r.d
    /\ graph' = IF r.err = "none" THEN r.ret ELSE graph
    /\ log' = Append(log, [op |-> "remove_dp", old |-> datapipe,
                           new |-> 0, d |-> dict, g |-> graph,
                           err |-> r.err])
    /\ hash' \in Layouts(dict')
    /\ UNCHANGED <<res, join, zip_map, demux, unzip, call>>

NextRewrite ==
    \/ \E old_datapipe \in GraphIds(graph) :
         \E new_datapipe \in DOMAIN dict \ GraphIds(graph) :
            ReplaceDp(old_datapipe, new_datapipe)
    \/ \E datapipe \in GraphIds(graph) : RemoveDp(datapipe)

SpecRewrite == InitGraph /\ [][NextRewrite]_vars

-----------------------------------------------------------------------------
(* What the claims are stated with *)

\* the DataPipes p holds a reference to, itself apart
Holds(d, p) == Range(ConnectedSeq(d[p])) \ {p}

RECURSIVE Closure(_, _)
Closure(d, S) ==
    LET T == S \cup UNION {Holds(d, p) : p \in S}
    IN IF T = S THEN S ELSE Closure(d, T)

\* p and everything upstream of it
Reachable(d, p) == Closure(d, {p})

Terminal(g) == g[1].id

Count(s, x) == Cardinality({i \in 1..Len(s) : s[i] = x})

RECURSIVE Occurrences(_, _)
\* the number of places of a graph where DataPipe p stands
Occurrences(g, p) ==
    IF g = <<>> THEN 0
    ELSE (IF g[1].id = p THEN 1 ELSE 0) + Occurrences(g[1].sub, p)
         + Occurrences(Tail(g), p)

\* the state the i-th rewrite call left behind
After(i) ==
    IF i = Len(log) THEN [d |-> dict, g |-> graph]
    ELSE [d |-> log[i + 1].d, g |-> log[i + 1].g]

RECURSIVE SubstAll(_, _, _)
\* obj with every reference to old_dp turned into one to new_dp
SubstAll(obj, old_dp, new_dp) ==
    IF obj = DP(old_dp) THEN DP(new_dp)
    ELSE [obj EXCEPT !.v = [i \in 1..Len(obj.v) |-> SubstAll(obj.v[i], old_dp, new_dp)]]

RECURSIVE Canon(_)
\* the elements of S in one fixed order: DataPipes by increasing id, after
\* any other element
Canon(S) ==
    IF S = {} THEN <<>>
    ELSE LET x == CHOOSE y \in S :
                     \A z \in S : \/ z.k # "dp"
                                  \/ (y.k = "dp" /\ y.id >= z.id)
         IN Append(Canon(S \ {x}), x)

RECURSIVE Norm(_)
\* an attribute value with every set it holds listed in the fixed order: two
\* values with the same Norm differ by the order of iteration of a set alone
Norm(obj) ==
    LET w == [i \in 1..Len(obj.v) |-> Norm(obj.v[i])]
    IN [obj EXCEPT !.v = IF obj.k = "set" THEN Canon(Range(w)) ELSE w]

\* the attributes of one DataPipe, and a store, up to the order of sets
NormFields(fs) == [k \in 1..Len(fs) |-> Norm(fs[k])]
NormStore(d) == [p \in DOMAIN d |-> NormFields(d[p])]

RECURSIVE Shape(_)
\* a graph up to the order of its entries
Shape(g) == {[id |-> g[i].id, sub |-> Shape(g[i].sub)] : i \in 1..Len(g)}

\* no DataPipe is upstream of itself
Acyclic(d) == \A p \in DOMAIN d : p \notin Closure(d, Holds(d, p))

\* the DataPipes of graph g that hold p in store d
Receivers(d, g, p) == {r \in GraphIds(g) : p \in Holds(d, r)}

-----------------------------------------------------------------------------
(* Claims about the queries (SpecQuery) *)

\* C1: find_dps(graph, T) returns every reachable DataPipe whose exact type is
\* T exactly once, however many paths reach it, and no DataPipe of another
\* type, a subclass of T included.
C1_FindDpsExactTypeOnce ==
    res.op = "find_dps" =>
        /\ \A p \in Reachable(dict, Terminal(graph)) :
              TypeOf(p) = res.dp_type => Count(res.out, p) = 1
        /\ \A i \in 1..Len(res.out) :
              /\ TypeOf(res.out[i]) = res.dp_type
              /\ res.out[i] \in Reachable(dict, Terminal(graph))

\* C1 witness: a returned DataPipe stands at several places of the graph, and a
\* reachable DataPipe of a proper subclass of T is left out.
C1_Witness ==
    /\ res.op = "find_dps"
    /\ \E p \in Range(res.out) : Occurrences(graph, p) > 1
    /\ \E q \in Reachable(dict, Terminal(graph)) :
          /\ TypeOf(q) # res.dp_type
          /\ IsSubclass(TypeOf(q), res.dp_type)
          /\ q \notin Range(res.out)

\* C2: list_dps(graph, exclude) holds no DataPipe twice, and holds exactly the
\* DataPipes reachable from the terminal one that are neither excluded nor
\* upstream of an excluded DataPipe.
C2_ListDpsExclusion ==
    res.op = "list_dps" =>
        /\ \A p \in Range(res.out) : Count(res.out, p) = 1
        /\ Range(res.out) =
              Reachable(dict, Terminal(graph))
                 \ UNION {Reachable(dict, x) : x \in Range(res.exclude)}

\* C2 witness: an excluded DataPipe of the pipeline has DataPipes upstream, a
\* DataPipe reached along two paths is listed, and something is left out.
C2_Witness ==
    /\ res.op = "list_dps"
    /\ \E x \in Range(res.exclude) :
          /\ x \in Reachable(dict, Terminal(graph))
          /\ x # Terminal(graph)
          /\ Holds(dict, x) # {}
    /\ \E p \in Range(res.out) : Occurrences(graph, p) > 1
    /\ Len(res.out) > 1

-----------------------------------------------------------------------------
(* Claims about the rewrites (SpecRewrite) *)

IsReplace(i) == log[i].op = "replace_dp"
IsRemove(i) == log[i].op = "remove_dp"

\* C3: replace_dp(traverse(P), old, new) followed by replace_dp(result, new,
\* old), for old in the pipeline and new outside it, gives back the graph of P
\* (up to the order of its entries) and leaves every attribute of every
\* DataPipe holding the references it held before the two calls (a set is
\* compared by its elements, not by the order it is iterated in).
C3_ReplaceRoundTrip ==
    \A i \in 1..(Len(log) - 1) :
        ( /\ IsReplace(i) /\ IsReplace(i + 1)
          /\ Acyclic(log[i].d)
          /\ log[i + 1].old = log[i].new
          /\ log[i + 1].new = log[i].old
          /\ log[i].old \in GraphIds(log[i].g)
          /\ log[i].new \notin GraphIds(log[i].g) )
        => /\ log[i].err = "none" /\ log[i + 1].err = "none"
           /\ Shape(After(i + 1).g) = Shape(log[i].g)
           /\ NormStore(After(i + 1).d) = NormStore(log[i].d)

\* C4: when old is the terminal DataPipe, replace_dp returns the graph of new
\* as new was before the call and changes no attribute of any DataPipe, also
\* when new itself reads from old.
C4_ReplaceTerminalNoRewrite ==
    \A i \in 1..Len(log) :
        (IsReplace(i) /\ Acyclic(log[i].d) /\ log[i].old = Terminal(log[i].g))
        => /\ log[i].err = "none"
           /\ After(i).g = traverse_dps(log[i].d, log[i].new)
           /\ After(i).d = log[i].d

\* C5: when old is not the terminal DataPipe, after replace_dp every DataPipe
\* that held old holds new at the places where it held old, the returned graph
\* has the original terminal DataPipe, and the attributes of every other
\* DataPipe are unchanged.
C5_ReplaceInner ==
    \A i \in 1..Len(log) :
        ( /\ IsReplace(i)
          /\ Acyclic(log[i].d)
          /\ log[i].old # Terminal(log[i].g)
          /\ log[i].old \in GraphIds(log[i].g) )
        => /\ log[i].err = "none"
           /\ Terminal(After(i).g) = Terminal(log[i].g)
           /\ \A p \in DOMAIN dict :
                 IF p \in Receivers(log[i].d, log[i].g, log[i].old)
                 THEN NormFields(After(i).d[p]) =
                        [k \in 1..Len(log[i].d[p]) |->
                            Norm(SubstAll(log[i].d[p][k], log[i].old, log[i].new))]
                 ELSE After(i).d[p] = log[i].d[p]

RuntimeErrors == {"RuntimeError: source", "RuntimeError: multiple"}

\* C6: on a pipeline that is a DAG, remove_dp raises when the target reads
\* from no DataPipe and when it reads from more than one, and then no attribute
\* of any DataPipe has been changed: the pipeline is the one the call started
\* from.
C6_RemoveRejects ==
    \A i \in 1..Len(log) :
        ( /\ IsRemove(i)
          /\ Acyclic(log[i].d)
          /\ Cardinality(Holds(log[i].d, log[i].old)) # 1 )
        => /\ log[i].err =
                 (IF Holds(log[i].d, log[i].old) = {}
                  THEN "RuntimeError: source" ELSE "RuntimeError: multiple")
           /\ After(i).d = log[i].d
           /\ After(i).g = log[i].g
           /\ traverse_dps(After(i).d, Terminal(log[i].g)) = log[i].g

\* C6 witness: a target that is not the terminal DataPipe and reads from two
\* DataPipes has been refused.
C6_Witness ==
    /\ Len(log) > 0
    /\ IsRemove(Len(log))
    /\ Acyclic(log[Len(log)].d)
    /\ Cardinality(Holds(log[Len(log)].d, log[Len(log)].old)) > 1
    /\ log[Len(log)].old # Terminal(log[Len(log)].g)
    /\ log[Len(log)].err \in RuntimeErrors

\* C6 second witness: the source of a pipeline has been refused.
C6_WitnessSource ==
    /\ Len(log) > 0
    /\ IsRemove(Len(log))
    /\ Acyclic(log[Len(log)].d)
    /\ Holds(log[Len(log)].d, log[Len(log)].old) = {}
    /\ log[Len(log)].err \in RuntimeErrors

\* C7: for a target that is not the terminal DataPipe and reads from exactly one
\* DataPipe S, after remove_dp every DataPipe that held the target holds S at
\* those places, the target is no longer reachable from the terminal DataPipe
\* of the returned graph, every other DataPipe of the original graph still is,
\* and the terminal DataPipe is the same.
C7_RemoveSplices ==
    \A i \in 1..Len(log) :
        ( /\ IsRemove(i)
          /\ Acyclic(log[i].d)
          /\ log[i].old # Terminal(log[i].g)
          /\ log[i].old \in GraphIds(log[i].g)
          /\ Cardinality(Holds(log[i].d, log[i].old)) = 1 )
        => LET S == CHOOSE x \in Holds(log[i].d, log[i].old) : TRUE
               t == log[i].old
           IN /\ log[i].err = "none"
              /\ Terminal(After(i).g) = Terminal(log[i].g)
              /\ GraphIds(After(i).g) = GraphIds(log[i].g) \ {t}
              /\ Reachable(After(i).d, Terminal(After(i).g))
                    = GraphIds(log[i].g) \ {t}
              /\ \A p \in Receivers(log[i].d, log[i].g, t) :
                    NormFields(After(i).d[p]) =
                        [k \in 1..Len(log[i].d[p]) |->
                            Norm(SubstAll(log[i].d[p][k], t, S))]

-----------------------------------------------------------------------------
(* IterKeyZipperIterDataPipe (zip_with_iter).  An item of either stream is *)
(* [key, val]; key_fn and ref_key_fn read the key.  val is the item's      *)
(* position in its stream (times ValScale in the source stream), so that   *)
(* an item and the result of a merge tell which items they come from.      *)
(* join.buffer is self.buffer, the OrderedDict, as the sequence of its     *)
(* values in insertion order.  buffer_size None is written 0 (the          *)
(* constructor refuses every integer <= 0, line 81).                       *)

Keys == {"a", "b", "c"}
MaxSrc == 2
MaxRef == 4
MaxBuf == 2
ValScale == MaxRef + 1

NoItem == [key |-> "", val |-> 0]

key_fn(data) == data.key
ref_key_fn(ref_data) == ref_data.key

BufferKeys(buffer) == {ref_key_fn(buffer[i]) : i \in 1..Len(buffer)}

\* self.buffer.pop(key): [item, buffer]
BufferPop(buffer, key) ==
    LET i == CHOOSE n \in 1..Len(buffer) : ref_key_fn(buffer[n]) = key
    IN [item |-> buffer[i],
        buffer |-> SubSeq(buffer, 1, i - 1) \o SubSeq(buffer, i + 1, Len(buffer))]

\* an eviction that drops the entry inserted last
EvictNewest(buffer, buffer_size) ==
    IF buffer_size # 0 /\ Len(buffer) > buffer_size
    THEN SubSeq(buffer, 1, Len(buffer) - 1) ELSE buffer

\* lines 103-110: self.buffer.popitem(last=False) when the buffer is over its size
Evict(buffer, buffer_size) ==
    IF buffer_size # 0 /\ Len(buffer) > buffer_size THEN Tail(buffer) ELSE buffer

\* a duplicate test that never finds the key
DuplicateKeyNever(buffer, ref_key) == FALSE

\* line 101: ref_key in self.buffer
DuplicateKey(buffer, ref_key) == ref_key \in BufferKeys(buffer)

\* a merge that takes the oldest buffered item whatever its key
MergeOldest(j) ==
    LET ref_data == Head(j.buffer)
        m == IF j.merge_fn = "sum" THEN j.data.val + ref_data.val
             ELSE <<j.data, ref_data>>
    IN [res |-> IF j.keep_key THEN <<j.key, m>> ELSE <<m>>,
        ref_data |-> ref_data,
        buffer |-> Tail(j.buffer)]

\* lines 112-116: what is yielded for j.data, the buffered item taken out
Merge(j) ==
    LET p == BufferPop(j.buffer, j.key)
        m == IF j.merge_fn = "sum" THEN j.data.val + p.item.val
             ELSE <<j.data, p.item>>
    IN [res |-> IF j.keep_key THEN <<j.key, m>> ELSE <<m>>,
        ref_data |-> p.item,
        buffer |-> p.buffer]

\* a finally block that clears the buffer without calling janitor
FinallyClearOnly(j) ==
    [j EXCEPT !.buffer = <<>>]

\* lines 117-123, the finally block: every buffered item goes to janitor and
\* the buffer is cleared
Finally(j) ==
    [j EXCEPT !.released = @ \o j.buffer, !.buffer = <<>>]

Streams(n) == UNION {[1..m -> Keys] : m \in 0..n}

InitJoin ==
    /\ \E sk \in Streams(MaxSrc), rk \in Streams(MaxRef), size \in 0..MaxBuf,
          keep \in BOOLEAN, mf \in {"None", "sum"} :
          join = [pc |-> "idle",
                  source_datapipe |-> [i \in 1..Len(sk) |-> [key |-> sk[i], val |-> ValScale * i]],
                  ref_datapipe |-> [i \in 1..Len(rk) |-> [key |-> rk[i], val |-> i]],
                  buffer_size |-> size, keep_key |-> keep, merge_fn |-> mf,
                  buffer |-> <<>>,
                  src_i |-> 0, ref_i |-> 0, data |-> NoItem, key |-> "",
                  warn_once_flag |-> TRUE, warnings |-> 0,
                  out |-> <<>>, err |-> "none",
                  released |-> <<>>, evicted |-> <<>>, matched |-> <<>>]
    /\ dict = <<>>
    /\ graph = <<>>
    /\ log = <<>>
    /\ res = NoQuery
    /\ OthersUnused
    /\ hash = <<>>

\* iter(dp) and the first next(): line 87-88, up to the head of the for loop
StartPass ==
    /\ join.pc = "idle"
    /\ join' = [join EXCEPT !.pc = "for", !.ref_i = 0, !.warn_once_flag = TRUE]
    /\ UNCHANGED <<dict, graph, log, res, others>>

\* line 90-91: the for loop takes the next item of source_datapipe, or ends and
\* the finally block runs.  The consumer's next() resumes a suspended pass here.
NextData ==
    /\ join.pc \in {"for", "yield"}
    /\ IF join.src_i < Len(join.source_datapipe)
       THEN join' = [join EXCEPT !.pc = "while",
                                 !.src_i = @ + 1,
                                 !.data = join.source_datapipe[join.src_i + 1],
                                 !.key = key_fn(join.source_datapipe[join.src_i + 1])]
       ELSE join' = [Finally(join) EXCEPT !.pc = "done"]
    /\ UNCHANGED <<dict, graph, log, res, others>>

\* lines 92-111: one turn of the while loop
PullRef ==
    /\ join.pc = "while"
    /\ join.key \notin BufferKeys(join.buffer)
    /\ IF join.ref_i >= Len(join.ref_datapipe)
       THEN join' = [Finally(join) EXCEPT !.pc = "failed", !.err = "BufferError"]
       ELSE LET ref_data == join.ref_datapipe[join.ref_i + 1]
                ref_key == ref_key_fn(ref_data)
                j1 == [join EXCEPT !.ref_i = @ + 1]
                over == join.buffer_size # 0 /\ Len(join.buffer) > join.buffer_size
                kept == Evict(join.buffer, join.buffer_size)
            IN IF DuplicateKey(join.buffer, ref_key)
               THEN join' = [Finally(j1) EXCEPT !.pc = "failed", !.err = "ValueError"]
               ELSE join' = [j1 EXCEPT
                       !.warn_once_flag = IF over THEN FALSE ELSE @,
                       !.warnings = IF over /\ join.warn_once_flag THEN @ + 1 ELSE @,
                       !.evicted = IF over
                                   THEN Append(@, [at |-> join.src_i, was |-> join.buffer,
                                                   now |-> kept])
                                   ELSE @,
                       !.buffer = Append(kept, ref_data)]
    /\ UNCHANGED <<dict, graph, log, res, others>>

\* lines 112-116: the key is in the buffer; merge and yield
Yield ==
    /\ join.pc = "while"
    /\ join.key \in BufferKeys(join.buffer)
    /\ LET m == Merge(join)
       IN join' = [join EXCEPT !.pc = "yield",
                               !.buffer = m.buffer,
                               !.out = Append(@, m.res),
                               !.matched = Append(@, m.ref_data)]
    /\ UNCHANGED <<dict, graph, log, res, others>>

\* the consumer abandons the pass at a yield (generator close): GeneratorExit is
\* raised at line 114/116 and the finally block runs
Close ==
    /\ join.pc = "yield"
    /\ join' = [Finally(join) EXCEPT !.pc = "closed"]
    /\ UNCHANGED <<dict, graph, log, res, others>>

NextJoin == StartPass \/ NextData \/ PullRef \/ Yield \/ Close

SpecJoin == InitJoin /\ [][NextJoin]_vars

-----------------------------------------------------------------------------
(* Claims about the keyed join (SpecJoin) *)

\* what merge_fn (or the default pairing) and keep_key make of two items
Expected(data, ref_data) ==
    LET m == IF join.merge_fn = "sum" THEN data.val + ref_data.val
             ELSE <<data, ref_data>>
    IN IF join.keep_key THEN <<key_fn(data), m>> ELSE <<m>>

\* C8: the results yielded so far are, in the source stream's order, the merge
\* of each source item with a reference item of the same key; no source item is
\* passed over; a pass that ends normally has one result per source item, and a
\* pass fails with BufferError only when the reference stream is exhausted and
\* holds no match for the current item.
C8_JoinOutput ==
    /\ \A i \in 1..Len(join.out) :
          /\ i <= Len(join.source_datapipe)
          /\ \E n \in 1..Len(join.ref_datapipe) :
                /\ ref_key_fn(join.ref_datapipe[n]) = key_fn(join.source_datapipe[i])
                /\ join.out[i] = Expected(join.source_datapipe[i], join.ref_datapipe[n])
                /\ join.matched[i] = join.ref_datapipe[n]
    /\ \A i \in 1..join.src_i :
          i <= Len(join.out) \/ (i = join.src_i /\ join.pc \in {"while", "failed"})
    /\ join.pc = "done" => Len(join.out) = Len(join.source_datapipe)
    /\ (join.pc = "failed" /\ join.err = "BufferError") =>
          /\ join.ref_i = Len(join.ref_datapipe)
          /\ Len(join.out) = join.src_i - 1
          /\ \A n \in 1..Len(join.matched) :
                \A r \in Range(join.released) : join.matched[n] # r

\* C8 witness: a pass has ended normally with two results whose reference items
\* came in the opposite order, and with an unmatched item left over.
C8_Witness ==
    /\ join.pc = "done"
    /\ Len(join.out) = 2
    /\ join.matched[1].val > join.matched[2].val
    /\ join.released # <<>>

\* C9: with buffer_size a positive integer B the buffer never holds more than
\* B entries.
C9_BufferWithinSize ==
    join.buffer_size > 0 => Len(join.buffer) <= join.buffer_size

\* the entry an eviction removed
Gone(e) == Range(e.was) \ Range(e.now)

\* C10 as stated: an eviction removes the entry inserted earliest, and a later
\* source item with the key of an evicted entry never gets a result.
C10_EvictedNeverMatched ==
    \A n \in 1..Len(join.evicted) :
        LET e == join.evicted[n] IN
        /\ \A x \in Gone(e) : \A y \in Range(e.was) : x.val <= y.val
        /\ \A x \in Gone(e) :
              \A i \in (e.at + 1)..Len(join.source_datapipe) :
                 key_fn(join.source_datapipe[i]) = ref_key_fn(x)
                 => Len(join.out) < i

\* C10 amended: an eviction happens only over the size and removes exactly the
\* entry inserted earliest; the evicted item is never part of a result; and a
\* later source item with its key gets no result, the pass not ending
\* normally, unless the reference stream brings that key again after the
\* evicted item.
C10_FifoEviction ==
    \A n \in 1..Len(join.evicted) :
        LET e == join.evicted[n] IN
        /\ Len(e.was) > join.buffer_size
        /\ Cardinality(Gone(e)) = 1
        /\ \A x \in Gone(e) :
              /\ \A y \in Range(e.was) : x.val <= y.val
              /\ \A m \in 1..Len(join.matched) : join.matched[m] # x
              /\ \A i \in (e.at + 1)..Len(join.source_datapipe) :
                    ( /\ key_fn(join.source_datapipe[i]) = ref_key_fn(x)
                      /\ \A k \in (x.val + 1)..Len(join.ref_datapipe) :
                            ref_key_fn(join.ref_datapipe[k]) # ref_key_fn(x) )
                    => /\ Len(join.out) < i
                       /\ join.pc # "done"
                       /\ (join.src_i = i /\ join.ref_i = Len(join.ref_datapipe))
                            => (join.pc = "while"
                                \/ (join.pc = "failed"
                                    /\ join.err \in {"BufferError", "ValueError"}))

\* C10 witness: the older of two buffered entries was evicted, the pass came to
\* a source item with its key and failed as no match, the reference exhausted.
C10_Witness ==
    /\ join.pc = "failed"
    /\ join.err = "BufferError"
    /\ join.ref_i = Len(join.ref_datapipe)
    /\ \E n \in 1..Len(join.evicted) :
          /\ Len(join.evicted[n].was) >= 2
          /\ join.src_i > join.evicted[n].at
          /\ \E x \in Gone(join.evicted[n]) : ref_key_fn(x) = join.key

\* the pass has ended: source exhausted, a matching error raised, or the
\* consumer closed the pass at a yield
Ended == join.pc \in {"done", "failed", "closed"}

\* the reference items pulled so far
Pulled == {join.ref_datapipe[n] : n \in 1..join.ref_i}

\* the reference items that were put into the buffer: every pulled item but
\* the one at which the duplicate-key error was raised
Inserted ==
    IF join.pc = "failed" /\ join.err = "ValueError"
    THEN Pulled \ {join.ref_datapipe[join.ref_i]}
    ELSE Pulled

\* the items evictions took out of the buffer
EvictedItems == UNION {Gone(join.evicted[n]) : n \in 1..Len(join.evicted)}

\* C11: once a pass has ended, by exhaustion of the source, by a matching
\* error or by the consumer closing it, the buffer is empty and the items
\* handed to janitor are, each exactly once, the items that were in the buffer
\* at that moment: those inserted and neither matched nor evicted before.  A
\* state with the error set is a state where this has already happened.
C11_CleanupOnEnd ==
    Ended =>
       /\ join.buffer = <<>>
       /\ Cardinality(Range(join.released)) = Len(join.released)
       /\ Range(join.released) = (Inserted \ Range(join.matched)) \ EvictedItems

\* C11 witness: a pass failed as no match with two items left in the buffer,
\* both handed to janitor.
C11_Witness ==
    /\ join.pc = "failed"
    /\ join.err = "BufferError"
    /\ Len(join.out) >= 1
    /\ Len(join.released) = 2
    /\ join.buffer = <<>>

\* C11 second witness: the consumer closed the pass at a yield with an item
\* left in the buffer.
C11_WitnessClosed ==
    /\ join.pc = "closed"
    /\ join.released # <<>>
    /\ join.src_i < Len(join.source_datapipe)

\* C12: at the end of a pass every reference item that was put into the buffer
\* has been yielded in a match or handed to janitor, evicted items included.
C12_EveryDiscardReleased ==
    Ended => \A x \in Inserted : x \in Range(join.matched) \/ x \in Range(join.released)

\* C13: a step that pulls a reference item whose key is in the buffer ends the
\* pass with the duplicate-key error: the result list is as it was, the pulled
\* item is not inserted and the buffered entries, none overwritten, are the
\* ones handed to janitor; no state has two buffered entries with one key, and
\* a failed pass has no result for the current source item.
C13_DuplicateKeyFails ==
    /\ [](\A a, b \in 1..Len(join.buffer) :
             ref_key_fn(join.buffer[a]) = ref_key_fn(join.buffer[b]) => a = b)
    /\ [](join.pc = "failed" => Len(join.out) = join.src_i - 1)
    /\ [][ ( /\ join.pc = "while"
             /\ join'.ref_i = join.ref_i + 1
             /\ ref_key_fn(join.ref_datapipe[join.ref_i + 1]) \in BufferKeys(join.buffer) )
           => ( /\ join'.pc = "failed"
                /\ join'.err = "ValueError"
                /\ join'.out = join.out
                /\ join'.matched = join.matched
                /\ join'.released = join.buffer
                /\ join'.buffer = <<>> ) ]_vars

\* C13 witness: after one result, a pulled item had the key of a buffered
\* entry and the pass failed with the duplicate-key error.
C13_Witness ==
    /\ join.pc = "failed"
    /\ join.err = "ValueError"
    /\ Len(join.out) = 1
    /\ \E r \in Range(join.released) :
          /\ ref_key_fn(r) = ref_key_fn(join.ref_datapipe[join.ref_i])
          /\ r # join.ref_datapipe[join.ref_i]

-----------------------------------------------------------------------------
(* MapKeyZipper (zip_with_map).  source_iterdatapipe is a sequence of      *)
(* items [key, val]; map_datapipe is a function from the keys it holds to  *)
(* the values stored under them.                                           *)

MaxItems == 3
MapScale == 100

\* the keys map_datapipe[key] does not raise KeyError / IndexError for
MapKeys(map_datapipe) == DOMAIN map_datapipe

\* a lookup that answers for every key
MapGetAny(map_datapipe, key) ==
    [found |-> TRUE,
     map_item |-> IF key \in MapKeys(map_datapipe) THEN map_datapipe[key] ELSE 0]

\* lines 228-231: map_item = self.map_datapipe[key], or the exception caught
MapGet(map_datapipe, key) ==
    IF key \in MapKeys(map_datapipe)
    THEN [found |-> TRUE, map_item |-> map_datapipe[key]]
    ELSE [found |-> FALSE, map_item |-> 0]

\* lines 232-236: what is yielded for item and map_item
MapRes(z, item, map_item) ==
    LET m == IF z.merge_fn = "sum" THEN item.val + map_item ELSE <<item, map_item>>
    IN IF z.keep_key THEN <<key_fn(item), m>> ELSE <<m>>

KeyIndex(k) == CASE k = "a" -> 1 [] k = "b" -> 2 [] k = "c" -> 3

InitZipMap ==
    /\ \E sk \in Streams(MaxItems), mk \in SUBSET Keys,
          keep \in BOOLEAN, mf \in {"None", "sum"} :
          zip_map = [pc |-> "idle",
                     source_iterdatapipe |-> [i \in 1..Len(sk) |-> [key |-> sk[i], val |-> i]],
                     map_datapipe |-> [k \in mk |-> MapScale * KeyIndex(k)],
                     keep_key |-> keep, merge_fn |-> mf,
                     src_i |-> 0, out |-> <<>>, err |-> "none"]
    /\ dict = <<>>
    /\ graph = <<>>
    /\ log = <<>>
    /\ res = NoQuery
    /\ join = NoJoin
    /\ hash = <<>>
    /\ demux = Unused
    /\ unzip = Unused
    /\ call = Unused

\* iter(dp): the generator is created, nothing has run
ZipMapIter ==
    /\ zip_map.pc = "idle"
    /\ zip_map' = [zip_map EXCEPT !.pc = "for"]
    /\ UNCHANGED <<dict, graph, log, res, join, demux, unzip, call, hash>>

\* lines 226-236, one next() of the consumer: the for loop takes the next
\* item, looks its key up and yields, or raises KeyError, or ends
ZipMapNext ==
    /\ zip_map.pc \in {"for", "yield"}
    /\ IF zip_map.src_i >= Len(zip_map.source_iterdatapipe)
       THEN zip_map' = [zip_map EXCEPT !.pc = "done"]
       ELSE LET item == zip_map.source_iterdatapipe[zip_map.src_i + 1]
                key == key_fn(item)
                g == MapGet(zip_map.map_datapipe, key)
            IN IF g.found
               THEN zip_map' = [zip_map EXCEPT
                       !.pc = "yield", !.src_i = @ + 1,
                       !.out = Append(@, MapRes(zip_map, item, g.map_item))]
               ELSE zip_map' = [zip_map EXCEPT
                       !.pc = "failed", !.src_i = @ + 1, !.err = "KeyError"]
    /\ UNCHANGED <<dict, graph, log, res, join, demux, unzip, call, hash>>

NextZipMap == ZipMapIter \/ ZipMapNext

SpecZipMap == InitZipMap /\ [][NextZipMap]_vars

\* the source positions whose key map_datapipe does not hold
Missing == {i \in 1..Len(zip_map.source_iterdatapipe) :
               key_fn(zip_map.source_iterdatapipe[i]) \notin MapKeys(zip_map.map_datapipe)}

\* C14: the results yielded so far are, in the source's order and one per
\* item, the merge of each item with the value stored under its key; no
\* result is yielded for the first item whose key is absent nor for any later
\* one; the pass fails exactly there, with KeyError, and ends normally only
\* with one result per source item.
C14_LookupJoin ==
    /\ \A i \in 1..Len(zip_map.out) :
          /\ i <= Len(zip_map.source_iterdatapipe)
          /\ i \notin Missing
          /\ zip_map.out[i] =
                MapRes(zip_map, zip_map.source_iterdatapipe[i],
                       zip_map.map_datapipe[key_fn(zip_map.source_iterdatapipe[i])])
    /\ \A i \in Missing : Len(zip_map.out) < i /\ zip_map.src_i <= i
    /\ zip_map.pc = "failed" <=> (zip_map.src_i \in Missing)
    /\ zip_map.pc = "failed" =>
          /\ zip_map.err = "KeyError"
          /\ Len(zip_map.out) = zip_map.src_i - 1
    /\ zip_map.pc = "yield" => Len(zip_map.out) = zip_map.src_i
    /\ zip_map.pc = "done" =>
          /\ Missing = {}
          /\ Len(zip_map.out) = Len(zip_map.source_iterdatapipe)

\* C14 witness: two results were yielded, the third item's key is absent and
\* the pass failed with the lookup error.
C14_Witness ==
    /\ zip_map.pc = "failed"
    /\ zip_map.err = "KeyError"
    /\ Len(zip_map.out) = 2
    /\ zip_map.src_i = 3

-----------------------------------------------------------------------------
(* RoundRobinDemultiplexer (round_robin_demux), lines 274-299.  __new__    *)
(* enumerates the source and hands it to a container derived from torch's  *)
(* _DemultiplexerIterDataPipe with _round_robin_fn as its classifier; the  *)
(* children are _ChildDataPipe(container, i).map(_drop_index).  The        *)
(* container's iteration (get_next_element_by_instance, _find_next) is     *)
(* torch's and is written here after the splitter of the specification:    *)
(* one upstream iterator, one queue per branch, one count of buffered      *)
(* items for all branches, and a hard error when the count exceeds the     *)
(* bound.  An item is a pair <<idx, data>>.  The model follows one         *)
(* iteration pass: each branch is iterated once, to its end, to an error   *)
(* or until its consumer abandons it.                                      *)

MaxDemuxLen == 4
MaxInstances == 3
MaxDemuxBuf == 2

DemuxData == {10, 11}

\* line 283: datapipe.enumerate()
Enumerate(datapipe) == [i \in 1..Len(datapipe) |-> <<i - 1, datapipe[i]>>]

\* lines 242-244
_drop_index(idx_data) == idx_data[2]

\* a classifier that is one branch off
RoundRobinOffByOne(idx_data, num_instances) == (idx_data[1] + 1) % num_instances

\* lines 292-294
_round_robin_fn(idx_data, num_instances) == idx_data[1] % num_instances

\* a length that forgets the remainder
GetLengthAvg(n, num_instances, instance_id) == n \div num_instances

\* lines 296-299, with n = len(self.main_datapipe)
get_length_by_instance(n, num_instances, instance_id) ==
    LET avg_length == n \div num_instances
    IN IF n - avg_length * num_instances > instance_id
       THEN avg_length + 1 ELSE avg_length

\* lines 284 and 290: buffer_size is handed to the container as given
ContainerBufferSize(buffer_size) == buffer_size

Instances(c) == 0..(c.num_instances - 1)

\* The generator of branch instance_id ends: its finally block.  The branch
\* is stopped; the upstream iterator is dropped once every branch is stopped;
\* what is left in the branch's own queue is released (_cleanup), the count
\* of buffered items being left as it is.
ChildFinally(c, instance_id, pc, err) ==
    LET c1 == [c EXCEPT !.child_stop[instance_id] = TRUE,
                        !.pc[instance_id] = pc,
                        !.err[instance_id] = err]
        c2 == IF \A k \in Instances(c1) : c1.child_stop[k]
              THEN [c1 EXCEPT !.iterating = FALSE]
              ELSE c1
    IN [c2 EXCEPT !.child_buffers[instance_id] = <<>>]

\* the source is exhausted while branch instance_id asks for an item
ChildExhausted(c, instance_id) ==
    ChildFinally([c EXCEPT !.main_datapipe_exhausted = TRUE, !.iterating = FALSE],
                 instance_id, "done", "none")

RECURSIVE _find_next(_, _)
\* the container pulls from the upstream iterator until it has an item of
\* branch instance_id: items of other branches go to their queues and count
\* against buffer_size; the whole of one next() of the branch
_find_next(c, instance_id) ==
    IF c.main_datapipe_exhausted \/ c.child_stop[instance_id]
         \/ c.pulled >= Len(c.main_datapipe)
    THEN ChildExhausted(c, instance_id)
    ELSE LET value == c.main_datapipe[c.pulled + 1]
             classification == _round_robin_fn(value, c.num_instances)
             c1 == [c EXCEPT !.pulled = @ + 1]
         IN IF classification = instance_id
            THEN [c1 EXCEPT !.out[instance_id] = Append(@, _drop_index(value))]
            ELSE LET c2 == [c1 EXCEPT
                               !.child_buffers[classification] = Append(@, value),
                               !.current_buffer_usage = @ + 1]
                 IN IF c2.buffer_size >= 0 /\ c2.current_buffer_usage > c2.buffer_size
                    THEN ChildFinally(c2, instance_id, "failed", "BufferError")
                    ELSE _find_next(c2, instance_id)

\* one next() on branch instance_id once its generator runs
get_next_element_by_instance(c, instance_id) ==
    IF c.child_stop[instance_id] THEN ChildFinally(c, instance_id, "done", "none")
    ELSE IF c.child_buffers[instance_id] # <<>>
    THEN [c EXCEPT !.current_buffer_usage = @ - 1,
                   !.child_buffers[instance_id] = Tail(@),
                   !.out[instance_id] =
                       Append(@, _drop_index(Head(c.child_buffers[instance_id])))]
    ELSE _find_next(c, instance_id)

InitDemux ==
    /\ \E n \in 0..MaxDemuxLen, N \in 2..MaxInstances, size \in -1..MaxDemuxBuf :
       \E src \in [1..n -> DemuxData] :
          demux = [main_datapipe |-> Enumerate(src),
                   num_instances |-> N,
                   buffer_size |-> ContainerBufferSize(size),
                   asked_size |-> size,
                   iterating |-> FALSE,
                   pulled |-> 0,
                   current_buffer_usage |-> 0,
                   child_buffers |-> [k \in 0..(N - 1) |-> <<>>],
                   main_datapipe_exhausted |-> FALSE,
                   child_stop |-> [k \in 0..(N - 1) |-> TRUE],
                   pc |-> [k \in 0..(N - 1) |-> "idle"],
                   err |-> [k \in 0..(N - 1) |-> "none"],
                   out |-> [k \in 0..(N - 1) |-> <<>>]]
    /\ dict = <<>>
    /\ graph = <<>>
    /\ log = <<>>
    /\ res = NoQuery
    /\ join = NoJoin
    /\ hash = <<>>
    /\ zip_map = Unused
    /\ unzip = Unused
    /\ call = Unused

\* the consumer of branch instance_id calls next().  The first next() of the
\* first branch creates the upstream iterator and opens every branch.
DemuxNext(instance_id) ==
    /\ demux.pc[instance_id] \in {"idle", "iter"}
    /\ LET c0 == [demux EXCEPT !.pc[instance_id] = "iter"]
           c1 == IF demux.pc[instance_id] = "idle" /\ ~demux.iterating
                    /\ demux.child_stop[instance_id]
                 THEN [c0 EXCEPT !.iterating = TRUE,
                                 !.pulled = 0,
                                 !.main_datapipe_exhausted = FALSE,
                                 !.child_stop = [k \in Instances(demux) |-> FALSE]]
                 ELSE c0
       IN demux' = get_next_element_by_instance(c1, instance_id)
    /\ UNCHANGED <<dict, graph, log, res, join, zip_map, unzip, call, hash>>

\* the consumer of branch instance_id abandons it: the generator, suspended
\* at a yield, is closed and runs its finally block
DemuxClose(instance_id) ==
    /\ demux.pc[instance_id] = "iter"
    /\ demux' = ChildFinally(demux, instance_id, "closed", "none")
    /\ UNCHANGED <<dict, graph, log, res, join, zip_map, unzip, call, hash>>

NextDemux ==
    \E instance_id \in Instances(demux) :
        \/ DemuxNext(instance_id)
        \/ DemuxClose(instance_id)

SpecDemux == InitDemux /\ [][NextDemux]_vars

-----------------------------------------------------------------------------
(* Claims about round_robin_demux (SpecDemux) *)

RECURSIVE PositionsOf(_, _, _)
\* the data of the source items at positions i < n with i mod N = k, in order
PositionsOf(src, N, k) ==
    IF src = <<>> THEN <<>>
    ELSE LET r == PositionsOf(SubSeq(src, 1, Len(src) - 1), N, k)
         IN IF src[Len(src)][1] % N = k THEN Append(r, src[Len(src)][2]) ELSE r

IsPrefix(s, t) == Len(s) <= Len(t) /\ s = SubSeq(t, 1, Len(s))

RECURSIVE SumLen(_, _)
SumLen(f, S) ==
    IF S = {} THEN 0
    ELSE LET k == CHOOSE x \in S : TRUE IN f[k] + SumLen(f, S \ {k})

\* C15: whatever the order in which the branches are asked for items or
\* abandoned, what branch k has yielded is a prefix of the data of the source
\* items at positions i with i mod N = k, in source order and without the
\* index; a branch that ran to exhaustion, no branch having failed, has
\* yielded all of them, so that, all branches exhausted, every source item
\* was yielded by exactly one branch.
C15_RoundRobinBranches ==
    \A k \in Instances(demux) :
       LET want == PositionsOf(demux.main_datapipe, demux.num_instances, k) IN
       /\ IsPrefix(demux.out[k], want)
       /\ (demux.pc[k] = "done" /\ \A j \in Instances(demux) : demux.err[j] = "none")
             => demux.out[k] = want

\* C15 witness: the source has four items, both of two branches ended
\* without error after the next() calls were interleaved through the buffer.
C15_Witness ==
    /\ demux.num_instances = 2
    /\ Len(demux.main_datapipe) = 4
    /\ demux.buffer_size = 1
    /\ \A k \in Instances(demux) : demux.pc[k] = "done" /\ demux.err[k] = "none"
    /\ Len(demux.out[0]) = 2
    /\ Len(demux.out[1]) = 2

\* C16: the length reported for branch k is floor(n/N), plus one when
\* k < n mod N; it is the number of source positions i < n with i mod N = k,
\* the number of items a branch that ran to exhaustion, no branch having
\* failed, has yielded; and the
\* lengths of the N branches sum to n.
C16_BranchLength ==
    LET n == Len(demux.main_datapipe)
        N == demux.num_instances
        len == [k \in Instances(demux) |-> get_length_by_instance(n, N, k)]
    IN /\ \A k \in Instances(demux) :
             /\ len[k] = (n \div N) + (IF k < n % N THEN 1 ELSE 0)
             /\ len[k] = Cardinality({i \in 0..(n - 1) : i % N = k})
             /\ (demux.pc[k] = "done" /\ \A j \in Instances(demux) : demux.err[j] = "none")
                   => Len(demux.out[k]) = len[k]
       /\ SumLen(len, Instances(demux)) = n

\* C16 witness: four items over three branches, all ended: branch 0 yielded
\* two items and the two others one.
C16_Witness ==
    /\ demux.num_instances = 3
    /\ Len(demux.main_datapipe) = 4
    /\ \A k \in Instances(demux) : demux.pc[k] = "done" /\ demux.err[k] = "none"
    /\ Len(demux.out[0]) = 2
    /\ Len(demux.out[2]) = 1

\* the items pulled from the source and held for a branch that has not taken
\* them yet, over all branches
Buffered == SumLen([k \in Instances(demux) |-> Len(demux.child_buffers[k])],
                   Instances(demux))

\* C17: with a bound B >= 0, whatever the order in which the consumers of the
\* branches ask for items or abandon them, the items pulled from the source
\* and not yet yielded, summed over all branches, never number more than B.
C17_NeverOverBound ==
    demux.asked_size >= 0 => Buffered <= demux.asked_size

-----------------------------------------------------------------------------
(* UnZipper (unzip), lines 333-369.  __new__ computes the retained column  *)
(* indices and builds a container derived from torch's                     *)
(* _ForkerIterDataPipe with one child per retained column;                 *)
(* get_next_element_by_instance (lines 362-369) yields the child's column  *)
(* of what the forker yields.  The forker's iteration is torch's and is    *)
(* written here after the forking mechanism of the specification: the      *)
(* source is consumed once, each item is cached for the branches that have *)
(* not read it yet, and the leading branch may be at most buffer_size      *)
(* items ahead of the slowest.                                             *)

MaxSeqLen == 3
MaxUnzipLen == 3
MaxUnzipBuf == 2
ColScale == 10

\* the source of the docstring example: item i is (i, i + 10, i + 20, ...)
UnzipSource(n, sequence_length) ==
    [i \in 1..n |-> [col \in 0..(sequence_length - 1) |-> (i - 1) + ColScale * col]]

RECURSIVE RangeList(_, _, _)
\* lines 340-344: [i for i in range(sequence_length) if i not in skips], from i
RangeList(i, sequence_length, skips) ==
    IF i >= sequence_length THEN <<>>
    ELSE IF i \in skips THEN RangeList(i + 1, sequence_length, skips)
    ELSE <<i>> \o RangeList(i + 1, sequence_length, skips)

\* lines 340-344; columns_to_skip None is the empty set of skips
InstanceIds(sequence_length, columns_to_skip) ==
    RangeList(0, sequence_length, columns_to_skip)

\* a child that takes the column of its own number
UnzipColumnByInstance(instance_ids, instance_id) == instance_id

\* line 369: self.instance_ids[instance_id]
UnzipColumn(instance_ids, instance_id) == instance_ids[instance_id + 1]

Children(c) == 0..(Len(c.instance_ids) - 1)

MinPtr(c) == CHOOSE m \in {c.child_pointers[k] : k \in Children(c)} :
                 \A k \in Children(c) : m <= c.child_pointers[k]

\* the generator of child instance_id ends: the forker's finally block
ForkFinally(c, instance_id, pc, err) ==
    LET c1 == [c EXCEPT !.child_stop[instance_id] = TRUE,
                        !.pc[instance_id] = pc,
                        !.err[instance_id] = err]
    IN IF \A k \in Children(c1) : c1.child_stop[k]
       THEN [c1 EXCEPT !.iterating = FALSE, !.buffer = <<>>]
       ELSE c1

\* one turn of the forker's loop for child instance_id, which yields, stops
\* or raises BufferError; the yield is the child's column (lines 368-369)
ForkNext(c, instance_id) ==
    IF c.child_stop[instance_id] THEN ForkFinally(c, instance_id, "done", "none")
    ELSE
    LET ptr == c.child_pointers[instance_id] + 1
        c1 == [c EXCEPT !.child_pointers[instance_id] = ptr]
    IN IF c1.end_ptr # -2 /\ ptr = c1.end_ptr
       THEN ForkFinally(c1, instance_id, "done", "none")
       ELSE
       LET cached == c1.buffer # <<>> /\ ptr <= c1.leading_ptr
           c2 == IF cached THEN c1 ELSE [c1 EXCEPT !.leading_ptr = ptr]
       IN IF ~cached /\ c2.pulled >= Len(c2.main_datapipe)
          THEN ForkFinally([c2 EXCEPT !.iterating = FALSE, !.end_ptr = c2.leading_ptr],
                           instance_id, "done", "none")
          ELSE
          LET return_val == IF cached THEN c2.buffer[ptr - c2.slowest_ptr]
                            ELSE c2.main_datapipe[c2.pulled + 1]
              c3 == IF cached THEN c2
                    ELSE [c2 EXCEPT !.buffer = Append(@, return_val), !.pulled = @ + 1]
              c4 == IF ptr = c3.slowest_ptr + 1 /\ c3.slowest_ptr < MinPtr(c3)
                    THEN [c3 EXCEPT !.slowest_ptr = MinPtr(c3), !.buffer = Tail(@)]
                    ELSE c3
          IN IF c4.buffer_size >= 0 /\ c4.leading_ptr > c4.buffer_size + c4.slowest_ptr
             THEN ForkFinally(c4, instance_id, "failed", "BufferError")
             ELSE [c4 EXCEPT !.out[instance_id] =
                      Append(@, return_val[UnzipColumn(c4.instance_ids, instance_id)])]

InitUnzip ==
    /\ \E n \in 0..MaxUnzipLen, L \in 1..MaxSeqLen, size \in -1..MaxUnzipBuf :
       \E K \in SUBSET (0..(L - 1)) :
          LET ids == InstanceIds(L, K)
              ch == 0..(Len(ids) - 1)
          IN unzip = [new |-> IF Len(ids) = 0 THEN "RuntimeError" ELSE "ok",
                      main_datapipe |-> UnzipSource(n, L),
                      sequence_length |-> L,
                      columns_to_skip |-> K,
                      instance_ids |-> ids,
                      buffer_size |-> size,
                      buffer |-> <<>>,
                      pulled |-> 0,
                      iterating |-> FALSE,
                      child_pointers |-> [k \in ch |-> -1],
                      slowest_ptr |-> -1,
                      leading_ptr |-> -1,
                      end_ptr |-> -2,
                      child_stop |-> [k \in ch |-> TRUE],
                      pc |-> [k \in ch |-> "idle"],
                      err |-> [k \in ch |-> "none"],
                      out |-> [k \in ch |-> <<>>]]
    /\ dict = <<>>
    /\ graph = <<>>
    /\ log = <<>>
    /\ res = NoQuery
    /\ join = NoJoin
    /\ hash = <<>>
    /\ zip_map = Unused
    /\ demux = Unused
    /\ call = Unused

\* the consumer of child instance_id calls next().  The first next() of the
\* first child creates the upstream iterator and opens every child.
UnzipNext(instance_id) ==
    /\ unzip.pc[instance_id] \in {"idle", "iter"}
    /\ LET c0 == [unzip EXCEPT !.pc[instance_id] = "iter"]
           c1 == IF unzip.pc[instance_id] = "idle" /\ ~unzip.iterating
                    /\ unzip.child_stop[instance_id]
                 THEN [c0 EXCEPT !.iterating = TRUE,
                                 !.child_stop = [k \in Children(unzip) |-> FALSE]]
                 ELSE c0
       IN unzip' = ForkNext(c1, instance_id)
    /\ UNCHANGED <<dict, graph, log, res, join, zip_map, demux, call, hash>>

NextUnzip == \E instance_id \in Children(unzip) : UnzipNext(instance_id)

SpecUnzip == InitUnzip /\ [][NextUnzip]_vars

-----------------------------------------------------------------------------
(* Claims about unzip (SpecUnzip) *)

\* column col of the source items, in source order
ColumnOf(src, col) == [i \in 1..Len(src) |-> src[i][col]]

\* the retained column indices, in increasing order
Retained == {col \in 0..(unzip.sequence_length - 1) : col \notin unzip.columns_to_skip}

\* C18: there is one branch per index of 0..L-1 that is not skipped, in
\* increasing index order, and the construction fails exactly when no index is
\* retained; whatever the order of the branches' next() calls, what the branch
\* of retained index c has yielded is a prefix of element c of the source
\* items, in source order, and all of it once the branch has ended with no
\* branch failed on the look-ahead bound; the source is consumed once: never
\* more items are pulled than the source has or than the leading branch asked
\* for.
C18_UnzipBranches ==
    /\ Len(unzip.instance_ids) = Cardinality(Retained)
    /\ \A k \in Children(unzip) :
          /\ unzip.instance_ids[k + 1] \in Retained
          /\ \A j \in Children(unzip) :
                j < k => unzip.instance_ids[j + 1] < unzip.instance_ids[k + 1]
    /\ unzip.new = "RuntimeError" <=> Retained = {}
    /\ \A k \in Children(unzip) :
          LET want == ColumnOf(unzip.main_datapipe, unzip.instance_ids[k + 1]) IN
          /\ IsPrefix(unzip.out[k], want)
          /\ (unzip.pc[k] = "done" /\ \A j \in Children(unzip) : unzip.err[j] = "none")
                => unzip.out[k] = want
          /\ Len(unzip.out[k]) <= unzip.pulled
    /\ unzip.pulled <= Len(unzip.main_datapipe)
    /\ unzip.pulled = unzip.leading_ptr + 1
         \/ (unzip.pulled = unzip.leading_ptr /\ unzip.end_ptr = unzip.leading_ptr)
    /\ Children(unzip) # {} =>
          \E k \in Children(unzip) : unzip.pulled <= Len(unzip.out[k]) + 1

\* C18 witness: sequence length 3 with column 1 skipped: the second branch has
\* yielded column 2 of two items, both branches ended, next() calls interleaved.
C18_Witness ==
    /\ unzip.sequence_length = 3
    /\ unzip.columns_to_skip = {1}
    /\ unzip.buffer_size = 1
    /\ Len(unzip.main_datapipe) = 2
    /\ \A k \in Children(unzip) : unzip.pc[k] = "done" /\ unzip.err[k] = "none"
    /\ unzip.out[0] = <<0, 1>>
    /\ unzip.out[1] = <<20, 21>>

\* C18 second witness: every column skipped, the construction failed
C18_WitnessNoBranch ==
    /\ unzip.new = "RuntimeError"
    /\ unzip.sequence_length = 2

-----------------------------------------------------------------------------
(* _assign_attr on its own.  The receiver is DataPipe RecvDp; its          *)
(* attributes hold OldDp, another DataPipe or other objects, directly or   *)
(* inside a list, a tuple, a set, a dict or a tuple nested in a tuple.     *)

MaxFields == 2
MaxElems == 2

OldDp == 1
OtherDp == 2
NewDp == 3
RecvDp == 4

Leaves == {DP(OldDp), DP(OtherDp), Other}

Seqs(S, n) == UNION {[1..m -> S] : m \in 1..n}

\* tuples of leaves
FlatTuples == {Tup(v) : v \in Seqs(Leaves, MaxElems)}

\* the values one attribute can hold
AttrValues ==
    Leaves
    \cup FlatTuples
    \cup {Lst(v) : v \in Seqs(Leaves, MaxElems)}
    \cup {Dct(v) : v \in Seqs(Leaves, MaxElems)}
    \cup {SetV(v) : v \in {w \in Seqs(Leaves \cup {Tup(<<DP(OldDp)>>)}, MaxElems) :
                                \A i, j \in 1..Len(w) : w[i] = w[j] => i = j}}
    \cup {Tup(<<t, x>>) : t \in FlatTuples, x \in Leaves}
    \cup {Tup(<<x, t>>) : t \in FlatTuples, x \in Leaves}
    \cup {Tup(<<Lst(<<x, y>>), y>>) : x, y \in Leaves}

\* the attributes of the receiver: leaves, and one attribute of any kind
AttrSeqs ==
    UNION {{[i \in 1..n |-> IF i = pos THEN v ELSE leaves[i]] :
               pos \in 1..n, v \in AttrValues, leaves \in [1..n -> Leaves]} :
           n \in 1..MaxFields}

InitAssign ==
    /\ \E fields \in AttrSeqs :
          dict = [p \in 1..RecvDp |-> IF p = RecvDp THEN fields ELSE <<Other>>]
    /\ call = [pc |-> "ready", k |-> 0, arg |-> None, ret |-> None, obj |-> None,
               before |-> <<>>, err |-> "none"]
    /\ graph = <<>>
    /\ log = <<>>
    /\ res = NoQuery
    /\ join = NoJoin
    /\ hash \in Layouts(dict)
    /\ zip_map = Unused
    /\ demux = Unused
    /\ unzip = Unused

\* _assign_attr(recv_dp, old_dp, new_dp, inner_dp=True), the call of lines 136
\* and 154
AssignAttrOuter ==
    /\ call.pc = "ready"
    /\ LET r == _assign_attr_dp(dict, RecvDp, OldDp, NewDp)
       IN /\ dict' = r.d
          /\ call' = [call EXCEPT !.pc = "outer", !.before = dict[RecvDp],
                                  !.err = r.err]
    /\ UNCHANGED <<graph, log, res, join, zip_map, demux, unzip, hash>>

\* _assign_attr(obj.__dict__[k], old_dp, new_dp), the call of line 170 for
\* attribute k alone: what it returns and what it leaves of the attribute
AssignAttrInner(k) ==
    /\ call.pc = "ready"
    /\ LET r == _assign_attr(dict[RecvDp][k], OldDp, NewDp, <<RecvDp, k>>)
       IN /\ call' = [call EXCEPT !.pc = "inner", !.k = k, !.arg = dict[RecvDp][k],
                                  !.before = dict[RecvDp],
                                  !.ret = r.ret, !.obj = r.obj, !.err = r.err]
          /\ dict' = [dict EXCEPT ![RecvDp][k] = r.obj]
    /\ UNCHANGED <<graph, log, res, join, zip_map, demux, unzip, hash>>

NextAssign ==
    \/ AssignAttrOuter
    \/ \E k \in 1..Len(dict[RecvDp]) : AssignAttrInner(k)

SpecAssign == InitAssign /\ [][NextAssign]_vars

-----------------------------------------------------------------------------
(* Claims about _assign_attr (SpecAssign) *)

RECURSIVE Sites(_, _)
RECURSIVE SitesSeq(_, _)
\* the number of places in obj, at any depth, that hold DataPipe p
Sites(obj, p) ==
    IF obj = DP(p) THEN 1
    ELSE IF obj.k \in {"tuple", "list", "set", "dict"} THEN SitesSeq(obj.v, p)
    ELSE 0
SitesSeq(v, p) ==
    IF v = <<>> THEN 0 ELSE Sites(Head(v), p) + SitesSeq(Tail(v), p)

\* C19: one outer call on a receiver that holds old changes exactly one
\* reference site from old to new: one site less holds old, one site holds new,
\* and no exception is raised.
C19_ExactlyOneSubstitution ==
    (call.pc = "outer" /\ SitesSeq(call.before, OldDp) >= 1) =>
       /\ call.err = "none"
       /\ SitesSeq(dict[RecvDp], OldDp) = SitesSeq(call.before, OldDp) - 1
       /\ SitesSeq(dict[RecvDp], NewDp) = 1

RECURSIVE InTuples(_, _)
\* obj is p, or a tuple that contains p directly or inside a nested tuple
InTuples(obj, p) ==
    \/ obj = DP(p)
    \/ obj.k = "tuple" /\ \E i \in 1..Len(obj.v) : InTuples(obj.v[i], p)

RECURSIVE Rebuilt(_, _)
\* t rebuilt: old replaced by new where a tuple or a nested tuple holds it,
\* every other element kept
Rebuilt(t, p) ==
    IF t = DP(p) THEN DP(NewDp)
    ELSE IF t.k = "tuple" /\ InTuples(t, p)
         THEN Tup([i \in 1..Len(t.v) |-> Rebuilt(t.v[i], p)])
         ELSE t

\* C20: for a tuple that contains old, directly or inside a nested tuple, the
\* call returns a tuple of the same length in which every position that did
\* not hold old keeps its element and a nested tuple that contained old is
\* the rebuilt nested tuple; for a tuple that does not, it returns None; the
\* tuple itself is left as it was.
C20_TupleRebuilt ==
    (call.pc = "inner" /\ call.arg.k = "tuple") =>
       /\ (\E i \in 1..Len(call.arg.v) : InTuples(call.arg.v[i], OldDp))
             => call.ret = Rebuilt(call.arg, OldDp)
       /\ ~(\E i \in 1..Len(call.arg.v) : InTuples(call.arg.v[i], OldDp))
             => call.ret = None
       /\ call.err = "none"

-----------------------------------------------------------------------------
(* The order of list_dps (SpecQuery) *)

\* the DataPipes list_dps leaves out: the excluded ones and all upstream of them
Excluded == UNION {Reachable(dict, x) : x \in Range(res.exclude)}

RECURSIVE DistFrom(_, _, _, _)
\* the length of the shortest chain of references from a DataPipe of frontier
\* to p that passes over no excluded DataPipe, plus n; -1 when there is none
DistFrom(frontier, seen, n, p) ==
    IF p \in frontier THEN n
    ELSE IF frontier = {} THEN -1
    ELSE LET nxt == (UNION {Holds(dict, r) : r \in frontier}) \ (seen \cup Excluded)
         IN DistFrom(nxt, seen \cup nxt, n + 1, p)

Dist(p) == DistFrom({Terminal(graph)} \ Excluded, {Terminal(graph)}, 0, p)

\* where p stands in the result
Pos(p) == CHOOSE i \in 1..Len(res.out) : res.out[i] = p

\* the listed DataPipe from which p was first discovered: the first one in the
\* result that holds p
Discoverer(p) ==
    res.out[CHOOSE i \in 1..Len(res.out) :
               /\ p \in Holds(dict, res.out[i])
               /\ \A j \in 1..(i - 1) : p \notin Holds(dict, res.out[j])]

\* the predecessor subgraph of r, in the order of traverse_dps
SubOrder(r) == LET g == traverse_dps(dict, r)
               IN [i \in 1..Len(g[1].sub) |-> g[1].sub[i].id]

\* C21: the result of list_dps is in breadth-first order from the terminal
\* DataPipe: the shortest distance from the terminal DataPipe, counted over
\* DataPipes that are not excluded, never decreases along the result, the
\* terminal DataPipe comes first, and two DataPipes first discovered from the
\* same DataPipe stand in the order of that DataPipe's predecessor subgraph.
C21_ListDpsBreadthFirst ==
    res.op = "list_dps" =>
        /\ \A i, j \in 1..Len(res.out) :
              i < j => (Dist(res.out[i]) >= 0 /\ Dist(res.out[i]) <= Dist(res.out[j]))
        /\ res.out # <<>> => res.out[1] = Terminal(graph)
        /\ \A p, q \in Range(res.out) \ {Terminal(graph)} :
              (p # q /\ Discoverer(p) = Discoverer(q)) =>
                 LET o == SubOrder(Discoverer(p))
                 IN Pos(p) < Pos(q) <=>
                       (\E a, b \in 1..Len(o) : a < b /\ o[a] = p /\ o[b] = q)

\* C21 witness: with a DataPipe excluded, the result lists two DataPipes at the
\* same distance before a DataPipe both of them hold, and a DataPipe from which
\* two others were first discovered.
C21_Witness ==
    /\ res.op = "list_dps"
    /\ res.exclude # <<>>
    /\ Excluded \cap Reachable(dict, Terminal(graph)) # {}
    /\ \E p, q, r \in Range(res.out) :
          /\ p # q
          /\ r \in Holds(dict, p) \cap Holds(dict, q)
          /\ Dist(p) = Dist(q)
          /\ Dist(r) = Dist(p) + 1
          /\ Discoverer(p) = Discoverer(q)

-----------------------------------------------------------------------------
(* The keyed join iterated again while an earlier pass is suspended.       *)
(* Creating a new iterator calls reset() (lines 128-129), which binds      *)
(* self.buffer to a new OrderedDict; the generator of the earlier pass     *)
(* stays suspended at its yield until it is closed or collected, and then  *)
(* runs its finally block (lines 117-123) on self.buffer.                  *)

MaxPasses == 2

InitRestart ==
    /\ \E sk \in Streams(MaxSrc), rk \in Streams(MaxRef), size \in 0..MaxBuf :
          join = [pc |-> "idle",
                  source_datapipe |-> [i \in 1..Len(sk) |-> [key |-> sk[i], val |-> ValScale * i]],
                  ref_datapipe |-> [i \in 1..Len(rk) |-> [key |-> rk[i], val |-> i]],
                  buffer_size |-> size, keep_key |-> FALSE, merge_fn |-> "None",
                  buffer |-> <<>>,
                  src_i |-> 0, ref_i |-> 0, data |-> NoItem, key |-> "",
                  warn_once_flag |-> TRUE, warnings |-> 0,
                  out |-> <<>>, err |-> "none",
                  released |-> <<>>, evicted |-> <<>>, matched |-> <<>>,
                  pass |-> 1,             \* the number of the current pass
                  suspended |-> FALSE,    \* an earlier generator waits at its yield
                  orphaned |-> <<>>,      \* the items in the dict reset() let go of
                  stolen |-> <<>>]        \* items of the current pass that the
                                          \* earlier generator's finally block released
    /\ dict = <<>>
    /\ graph = <<>>
    /\ log = <<>>
    /\ res = NoQuery
    /\ OthersUnused
    /\ hash = <<>>

\* a new iterator is created while the pass is suspended at a yield: reset()
\* and a new generator, which has not run yet
Restart ==
    /\ join.pc = "yield"
    /\ join.pass < MaxPasses
    /\ ~join.suspended
    /\ join' = [join EXCEPT !.pc = "idle", !.pass = @ + 1, !.suspended = TRUE,
                            !.orphaned = join.buffer,
                            !.buffer = <<>>,
                            !.src_i = 0, !.ref_i = 0, !.data = NoItem, !.key = "",
                            !.out = <<>>, !.err = "none",
                            !.evicted = <<>>, !.matched = <<>>]
    /\ UNCHANGED <<dict, graph, log, res, others>>

\* the generator of the earlier pass is closed or collected, between two
\* next() calls of the current pass: GeneratorExit at its yield, and its
\* finally block runs on self.buffer
CloseSuspended ==
    /\ join.suspended
    /\ join.pc \in {"idle", "yield", "done", "failed", "closed"}
    /\ join' = [Finally(join) EXCEPT !.suspended = FALSE,
                                     !.stolen = @ \o join.buffer]
    /\ UNCHANGED <<dict, graph, log, res, others>>

NextRestart == NextJoin \/ Restart \/ CloseSuspended

SpecRestart == InitRestart /\ [][NextRestart]_vars

\* the pass failed as no match although it had pulled, and neither matched nor
\* evicted, a reference item with the key of the current source item
LostMatch ==
    /\ join.pc = "failed"
    /\ join.err = "BufferError"
    /\ \E x \in (Inserted \ Range(join.matched)) \ EvictedItems :
          ref_key_fn(x) = join.key

\* C22: a pass started while an earlier pass is suspended starts with an empty
\* buffer; the cleanup of the earlier pass, when it comes, releases no item
\* that the new pass buffered; and the new pass goes on as a pass run alone
\* does: it never fails as no match for a key whose reference item it had
\* pulled and still had to have in its buffer.
C22_BufferPerPass ==
    /\ (join.pass > 1 /\ join.pc = "idle") => join.buffer = <<>>
    /\ join.stolen = <<>>
    /\ ~LostMatch

====
